---- MODULE Spec2Model ----
(***************************************************************************)
(* Model of the EPSS client's cache / query layer (src/epss/epss.py):      *)
(* the Client operations download_scores_by_date, download_scores_by_      *)
(* date_range, get_scores_by_date and iter_scores_grouped_by_date, the     *)
(* module-level download_scores_by_date / get_scores_by_date they call,    *)
(* the worker pools they use and the files of the on-disk cache.           *)
(*                                                                         *)
(* Dates are day numbers 1..NumDates.  Scores and percentiles are tenths   *)
(* (0..10 for 0.0..1.0).  Identifiers and patterns are tuples of           *)
(* one-character strings.  An optional argument is <<>> (None) or <<v>>.   *)
(***************************************************************************)
EXTENDS Integers, Sequences, FiniteSets, TLC

\* Number of calendar dates of the modelled window.
NumDates == 2

Dates == 1..NumDates

\* The two callers of the concurrent specification; Spec uses caller 1 only.
Callers == {1, 2}

None == <<>>

Some(v) == <<v>>

(***************************************************************************)
(* Pattern matching (src/epss/pattern_matching.py)                         *)
(***************************************************************************)
LowerMap == [C |-> "c", V |-> "v", E |-> "e"]

lower(s) == [i \in 1..Len(s) |-> IF s[i] \in DOMAIN LowerMap THEN LowerMap[s[i]] ELSE s[i]]

\* fnmatch.fnmatch on a POSIX system: '*' matches any run, '?' one character.
RECURSIVE fnmatch(_, _)
fnmatch(s, p) ==
    IF p = <<>> THEN s = <<>>
    ELSE IF Head(p) = "*"
         THEN fnmatch(s, Tail(p)) \/ (s /= <<>> /\ fnmatch(Tail(s), p))
    ELSE IF Head(p) = "?"
         THEN s /= <<>> /\ fnmatch(Tail(s), Tail(p))
    ELSE s /= <<>> /\ Head(s) = Head(p) /\ fnmatch(Tail(s), Tail(p))

\* CASE_SENSITIVE = False: both operands are lowercased first.
string_matches_any_pattern(string, patterns) ==
    \E i \in 1..Len(patterns) : fnmatch(lower(string), lower(patterns[i]))

(***************************************************************************)
(* Filtering (filter_scores) and Python truthiness of the filter arguments *)
(***************************************************************************)
\* Faulty variant: the lower score bound is exclusive.
filter_scores_strict(df, f) ==
    LET byId == IF f.cve_ids /= None /\ f.cve_ids[1] /= <<>>
                THEN SelectSeq(df, LAMBDA r : string_matches_any_pattern(r.cve, f.cve_ids[1]))
                ELSE df
        byMinS == IF f.min_score /= None
                  THEN SelectSeq(byId, LAMBDA r : r.epss > f.min_score[1])
                  ELSE byId
        byMaxS == IF f.max_score /= None
                  THEN SelectSeq(byMinS, LAMBDA r : r.epss <= f.max_score[1])
                  ELSE byMinS
        byMinP == IF f.min_percentile /= None
                  THEN SelectSeq(byMaxS, LAMBDA r : r.percentile >= f.min_percentile[1])
                  ELSE byMaxS
    IN  IF f.max_percentile /= None
        THEN SelectSeq(byMinP, LAMBDA r : r.percentile <= f.max_percentile[1])
        ELSE byMinP

\* filter_scores(df, cve_ids, min_score, max_score, min_percentile,
\* max_percentile)
filter_scores(df, f) ==
    LET byId == IF f.cve_ids /= None /\ f.cve_ids[1] /= <<>>
                THEN SelectSeq(df, LAMBDA r : string_matches_any_pattern(r.cve, f.cve_ids[1]))
                ELSE df
        byMinS == IF f.min_score /= None
                  THEN SelectSeq(byId, LAMBDA r : r.epss >= f.min_score[1])
                  ELSE byId
        byMaxS == IF f.max_score /= None
                  THEN SelectSeq(byMinS, LAMBDA r : r.epss <= f.max_score[1])
                  ELSE byMinS
        byMinP == IF f.min_percentile /= None
                  THEN SelectSeq(byMaxS, LAMBDA r : r.percentile >= f.min_percentile[1])
                  ELSE byMaxS
    IN  IF f.max_percentile /= None
        THEN SelectSeq(byMinP, LAMBDA r : r.percentile <= f.max_percentile[1])
        ELSE byMinP

\* bool(x) of an optional number: None and 0 are falsy.
TruthyNum(x) == x /= None /\ x[1] /= 0

\* bool(x) of an optional list: None and [] are falsy.
TruthyList(x) == x /= None /\ x[1] /= <<>>

\* any((cve_ids, min_score, max_score, min_percentile, max_percentile))
AnyFilter(f) ==
    \/ TruthyList(f.cve_ids)
    \/ TruthyNum(f.min_score)
    \/ TruthyNum(f.max_score)
    \/ TruthyNum(f.min_percentile)
    \/ TruthyNum(f.max_percentile)

NoFilter ==
    [cve_ids |-> None, min_score |-> None, max_score |-> None,
     min_percentile |-> None, max_percentile |-> None]

\* The filter arguments the callers of the model pass.
Filters ==
    { NoFilter,
      [NoFilter EXCEPT !.min_score = Some(5)],
      [NoFilter EXCEPT !.cve_ids = Some(<< <<"c", "v", "e", "-", "3">> >>)] }

(***************************************************************************)
(* The provider                                                            *)
(***************************************************************************)
Rec(id, s, p) == [cve |-> id, epss |-> s, percentile |-> p]

\* The snapshot the provider publishes for a date: the body below the
\* metadata line, columns cve,epss,percentile.
Upstream(d) ==
    CASE d % 3 = 1 -> << Rec(<<"C", "V", "E", "-", "1">>, 9, 9),
                         Rec(<<"C", "V", "E", "-", "2">>, 1, 2) >>
      [] d % 3 = 2 -> << >>
      [] OTHER     -> << Rec(<<"C", "V", "E", "-", "2">>, 2, 3) >>

\* df["date"] = date.isoformat()
Stamp(df, d) ==
    [i \in 1..Len(df) |->
        [cve |-> df[i].cve, epss |-> df[i].epss, percentile |-> df[i].percentile, date |-> d]]

(***************************************************************************)
(* Cache files.  A file is absent, or holds the sequence of the chunks on  *)
(* disk: one chunk per row, then the end-of-stream chunk a complete write  *)
(* ends with.  A file that exists with no chunk is zero-byte.              *)
(***************************************************************************)
Absent == [exists |-> FALSE, data |-> <<>>]

RowChunk(r) == [kind |-> "row", row |-> r]

EOS == [kind |-> "eos"]

Hole == [kind |-> "hole"]

\* df.to_csv(path): the chunks a whole write puts on disk, in order.
Payload(df) == [i \in 1..(Len(df) + 1) |-> IF i <= Len(df) THEN RowChunk(df[i]) ELSE EOS]

\* open(path, "wb"): creates the file or truncates it to zero bytes.
Truncated == [exists |-> TRUE, data |-> <<>>]

\* Faulty variant: the file is opened for appending, every write goes to
\* its end.
WriteAtEnd(f, pos, ch) == [exists |-> TRUE, data |-> Append(f.data, ch)]

\* A write of chunk ch at position pos (1-based) through the writer's own
\* descriptor; bytes never written below pos read as a hole.
WriteAt(f, pos, ch) ==
    [exists |-> TRUE,
     data |-> [i \in 1..(IF pos > Len(f.data) THEN pos ELSE Len(f.data)) |->
                 IF i = pos THEN ch ELSE IF i <= Len(f.data) THEN f.data[i] ELSE Hole]]

\* os.path.exists(path)
Exists(f) == f.exists

\* os.path.getsize(path)
GetSize(f) == Len(f.data)

\* The file holds a whole table: rows only, closed by the end-of-stream chunk.
IsComplete(f) ==
    /\ f.exists
    /\ Len(f.data) > 0
    /\ f.data[Len(f.data)].kind = "eos"
    /\ \A i \in 1..(Len(f.data) - 1) : f.data[i].kind = "row"

\* pd.read_csv(path) of a complete file: its rows.
Rows(f) == [i \in 1..(Len(f.data) - 1) |-> f.data[i].row]

\* The cache entry of date d is the faithful copy of the provider's snapshot.
Faithful(f, d) == IsComplete(f) /\ Rows(f) = Stamp(Upstream(d), d)

(***************************************************************************)
(* State                                                                   *)
(***************************************************************************)
VARIABLES
    file,     \* file[d]: the cache file at the canonical path of date d
    avail,    \* the dates the provider has a snapshot for
    op,       \* op[c]: the operation caller c runs or ran last
    task,     \* task[c][d]: the worker (or inline call) of caller c for date d
    gets,     \* gets[c][d]: HTTP GETs for d issued within caller c's operation
    loads,    \* loads[c][d]: Client.get_scores_by_date calls for d within it
    out,      \* out[c]: the (date, table) pairs the operation yielded, in order
    dlDone,   \* dates for which a Client.download_scores_by_date call succeeded
    call      \* the call of a module-level function under study, with its result

vars == <<file, avail, op, task, gets, loads, out, dlDone, call>>

\* No function call has been made.
NoCall == [fn |-> "none"]

NoTask == [pc |-> "none", kind |-> "none", df |-> <<>>, off |-> 0, typed |-> TRUE]

NewTask(kind, pc) == [pc |-> pc, kind |-> kind, df |-> <<>>, off |-> 0, typed |-> TRUE]

IdleOp ==
    [kind |-> "none", phase |-> "idle", lo |-> 1, hi |-> 1, flt |-> NoFilter,
     cur |-> 1, later |-> FALSE]

\* The caller is inside an operation.
Busy(c) == op[c].phase \notin {"idle", "ok", "error"}

\* The future of the task is done (returned or raised).
Finished(t) == t.pc \in {"done", "taken", "fetch_failed", "stamp_failed", "read_failed"}

Raised(t) == t.pc \in {"fetch_failed", "stamp_failed", "read_failed"}

Zero == [d \in Dates |-> 0]

Init ==
    /\ file = [d \in Dates |-> Absent]
    /\ avail \in SUBSET Dates
    /\ op = [c \in Callers |-> IdleOp]
    /\ task = [c \in Callers |-> [d \in Dates |-> NoTask]]
    /\ gets = [c \in Callers |-> Zero]
    /\ loads = [c \in Callers |-> Zero]
    /\ out = [c \in Callers |-> <<>>]
    /\ dlDone = {}
    /\ call = NoCall

\* What every call resets: the per-operation bookkeeping of caller c.
StartOp(c, o, tasks) ==
    /\ ~Busy(c)
    /\ op' = [op EXCEPT ![c] = o]
    /\ task' = [task EXCEPT ![c] = tasks]
    /\ gets' = [gets EXCEPT ![c] = Zero]
    /\ loads' = [loads EXCEPT ![c] = Zero]
    /\ out' = [out EXCEPT ![c] = <<>>]

(***************************************************************************)
(* Client.download_scores_by_date(date)                                    *)
(***************************************************************************)
\* Faulty variant: the size test takes a file of one chunk for an empty one.
DownloadHitSizeOne(f) == Exists(f) /\ GetSize(f) > 1

\* The cache-hit test of Client.download_scores_by_date.
DownloadHit(f) == Exists(f) /\ GetSize(f) > 0

\* The call and its cache-hit test.  typed = FALSE: the date is passed as an
\* ISO string, which the path and the URL parse but date.isoformat() rejects.
CallDownload(c, d, typed) ==
    LET hit == DownloadHit(file[d])
    IN  /\ StartOp(c,
                   [IdleOp EXCEPT !.kind = "download", !.lo = d, !.hi = d, !.cur = d,
                                  !.later = (d \in dlDone),
                                  !.phase = IF hit THEN "ok" ELSE "run"],
                   [x \in Dates |->
                       IF x = d /\ ~hit
                       THEN [NewTask("dl", "fetch") EXCEPT !.typed = typed]
                       ELSE NoTask])
        /\ dlDone' = IF hit THEN dlDone \cup {d} ELSE dlDone
        /\ UNCHANGED <<call, file, avail>>

ReturnDownload(c) ==
    /\ op[c].kind = "download" /\ op[c].phase = "run"
    /\ Finished(task[c][op[c].lo])
    /\ op' = [op EXCEPT ![c].phase = IF Raised(task[c][op[c].lo]) THEN "error" ELSE "ok"]
    /\ dlDone' = IF Raised(task[c][op[c].lo]) THEN dlDone ELSE dlDone \cup {op[c].lo}
    /\ UNCHANGED <<call, file, avail, task, gets, loads, out>>

(***************************************************************************)
(* Module-level get_scores_by_date / download_scores_by_date, run by a     *)
(* pool worker or inline.                                                  *)
(***************************************************************************)
\* requests.get answers 200 and the body parses; date.isoformat() stamps it.
FetchOk(c, d) ==
    /\ task[c][d].pc = "fetch"
    /\ d \in avail
    /\ gets' = [gets EXCEPT ![c][d] = @ + 1]
    /\ task' = [task EXCEPT ![c][d] =
                  IF task[c][d].typed
                  THEN [@ EXCEPT !.pc = "open", !.df = Stamp(Upstream(d), d)]
                  ELSE [@ EXCEPT !.pc = "stamp_failed"]]
    /\ UNCHANGED <<call, file, avail, op, loads, out, dlDone>>

\* Faulty variant: the path is opened for writing before the fetch, so a failed
\* fetch leaves a zero-byte file.
FetchFailTouchesFile(c, d) ==
    /\ task[c][d].pc = "fetch"
    /\ gets' = [gets EXCEPT ![c][d] = @ + 1]
    /\ task' = [task EXCEPT ![c][d].pc = "fetch_failed"]
    /\ file' = [file EXCEPT ![d] = Truncated]
    /\ UNCHANGED <<call, avail, op, loads, out, dlDone>>

\* Faulty variant: the error status is logged and not raised; the body gives an
\* empty table, which is written to the cache.
FetchFailSwallowed(c, d) ==
    /\ task[c][d].pc = "fetch"
    /\ gets' = [gets EXCEPT ![c][d] = @ + 1]
    /\ task' = [task EXCEPT ![c][d].pc = "open", ![c][d].df = <<>>]
    /\ UNCHANGED <<call, file, avail, op, loads, out, dlDone>>

\* raise_for_status() raises (error status), requests.get raises (network
\* failure) or pd.read_csv raises (unparseable body).
FetchFail(c, d) ==
    /\ task[c][d].pc = "fetch"
    /\ gets' = [gets EXCEPT ![c][d] = @ + 1]
    /\ task' = [task EXCEPT ![c][d].pc = "fetch_failed"]
    /\ UNCHANGED <<call, file, avail, op, loads, out, dlDone>>

\* df.to_csv(path) opens the path for writing.
OpenFile(c, d) ==
    /\ task[c][d].pc = "open"
    /\ file' = [file EXCEPT ![d] = Truncated]
    /\ task' = [task EXCEPT ![c][d].pc = "write", ![c][d].off = 0]
    /\ UNCHANGED <<call, avail, op, gets, loads, out, dlDone>>

\* df.to_csv(path) writes its next chunk; after the last one the file is
\* closed and download_scores_by_date returns.
WriteChunk(c, d) ==
    LET t == task[c][d]
        p == Payload(t.df)
        last == t.off + 1 = Len(p)
    IN  /\ t.pc = "write"
        /\ file' = [file EXCEPT ![d] = WriteAt(@, t.off + 1, p[t.off + 1])]
        /\ task' = [task EXCEPT ![c][d].off = t.off + 1,
                                ![c][d].pc = IF ~last THEN "write"
                                             ELSE IF t.kind = "get" THEN "read" ELSE "done"]
        /\ UNCHANGED <<call, avail, op, gets, loads, out, dlDone>>

(***************************************************************************)
(* Client.get_scores_by_date(date, filters)                                *)
(***************************************************************************)
CallGet(c, d, f) ==
    /\ StartOp(c,
               [IdleOp EXCEPT !.kind = "get", !.lo = d, !.hi = d, !.cur = d, !.flt = f,
                              !.phase = "run"],
               [x \in Dates |-> IF x = d THEN NewTask("get", "check") ELSE NoTask])
    /\ UNCHANGED <<call, file, avail, dlDone>>

\* The cache-hit test of Client.get_scores_by_date.
GetHit(f) == Exists(f)

\* Client.get_scores_by_date starts: if not os.path.exists(path): download.
TaskCheck(c, d) ==
    /\ task[c][d].pc = "check"
    /\ loads' = [loads EXCEPT ![c][d] = @ + 1]
    /\ task' = [task EXCEPT ![c][d].pc = IF GetHit(file[d]) THEN "read" ELSE "fetch"]
    /\ UNCHANGED <<call, file, avail, op, gets, out, dlDone>>

\* The table Client.get_scores_by_date returns from the rows it read.
Shortcut(rows, f) == IF AnyFilter(f) THEN filter_scores(rows, f) ELSE rows

\* pd.read_csv(path), which raises on a file that is no whole table, then
\* the filtering.
ReadFile(c, d) ==
    /\ task[c][d].pc = "read"
    /\ task' = [task EXCEPT ![c][d] =
                  IF IsComplete(file[d])
                  THEN [@ EXCEPT !.pc = "done", !.df = Shortcut(Rows(file[d]), op[c].flt)]
                  ELSE [@ EXCEPT !.pc = "read_failed", !.df = <<>>]]
    /\ UNCHANGED <<call, file, avail, op, gets, loads, out, dlDone>>

ReturnGet(c) ==
    /\ op[c].kind = "get" /\ op[c].phase = "run"
    /\ Finished(task[c][op[c].lo])
    /\ op' = [op EXCEPT ![c].phase = IF Raised(task[c][op[c].lo]) THEN "error" ELSE "ok"]
    /\ UNCHANGED <<call, file, avail, task, gets, loads, out, dlDone>>

(***************************************************************************)
(* Client.download_scores_by_date_range(min_date, max_date)                *)
(***************************************************************************)
\* Faulty variant: the test is inverted.
RangeHitInverted(f) == ~Exists(f)

\* The cache-hit test of Client.download_scores_by_date_range.
RangeHit(f) == Exists(f)

\* downloads: the dates of [lo, hi] without a cache file.
Missing(lo, hi) == {d \in lo..hi : ~RangeHit(file[d])}

\* One download_scores_by_date task per missing date, submitted to the pool.
Submitted(lo, hi) ==
    [d \in Dates |-> IF d \in Missing(lo, hi) THEN NewTask("dl", "fetch") ELSE NoTask]

\* parse_date_range raises ValueError when min_date > max_date; otherwise
\* the scan, and the submission of the missing dates.
CallRange(c, lo, hi) ==
    /\ StartOp(c,
               [IdleOp EXCEPT !.kind = "range", !.lo = lo, !.hi = hi, !.cur = lo,
                              !.phase = IF lo > hi THEN "error"
                                        ELSE IF Missing(lo, hi) = {} THEN "ok"
                                        ELSE "downloading"],
               IF lo > hi THEN [d \in Dates |-> NoTask] ELSE Submitted(lo, hi))
    /\ UNCHANGED <<call, file, avail, dlDone>>

\* Faulty variant: the pool is not awaited; the call goes on once one future is done.
PoolDrainedFirst(c) == \E d \in Dates : Finished(task[c][d])

\* Every submitted future is done.
PoolDrained(c) == \A d \in Dates : task[c][d].pc /= "none" => Finished(task[c][d])

\* concurrent.futures.wait(futures) returns, the executor shuts down.
ReturnRange(c) ==
    /\ op[c].kind = "range" /\ op[c].phase = "downloading"
    /\ PoolDrained(c)
    /\ op' = [op EXCEPT ![c].phase = "ok"]
    /\ UNCHANGED <<call, file, avail, task, gets, loads, out, dlDone>>

(***************************************************************************)
(* Client.iter_scores_grouped_by_date(min_date, max_date, filters), fully  *)
(* consumed                                                                *)
(***************************************************************************)
\* One Client.get_scores_by_date task per date of the range.
Loads(lo, hi) ==
    [d \in Dates |-> IF d \in lo..hi THEN NewTask("get", "check") ELSE NoTask]

\* The call of download_scores_by_date_range that opens the generator.
CallIter(c, lo, hi, f) ==
    /\ StartOp(c,
               [IdleOp EXCEPT !.kind = "iter", !.lo = lo, !.hi = hi, !.cur = lo, !.flt = f,
                              !.phase = IF lo > hi THEN "error"
                                        ELSE IF Missing(lo, hi) = {} THEN "pass1"
                                        ELSE "downloading"],
               IF lo > hi THEN [d \in Dates |-> NoTask]
               ELSE IF Missing(lo, hi) = {} THEN Loads(lo, hi)
               ELSE Submitted(lo, hi))
    /\ UNCHANGED <<call, file, avail, dlDone>>

\* download_scores_by_date_range returns; the loads are submitted to the pool.
IterSubmit(c) ==
    /\ op[c].kind = "iter" /\ op[c].phase = "downloading"
    /\ PoolDrained(c)
    /\ op' = [op EXCEPT ![c].phase = "pass1"]
    /\ task' = [task EXCEPT ![c] = Loads(op[c].lo, op[c].hi)]
    /\ UNCHANGED <<call, file, avail, gets, loads, out, dlDone>>

\* Faulty variant: the emptiness test is missing.
YieldAlways(seq, d, df) == Append(seq, <<d, df>>)

\* if not df.empty: yield date, df
Yield(seq, d, df) == IF df /= <<>> THEN Append(seq, <<d, df>>) ELSE seq

\* as_completed hands over a done future; future.result() returns or raises.
Consume(c, d) ==
    /\ op[c].kind = "iter" /\ op[c].phase = "pass1"
    /\ d \in op[c].lo..op[c].hi
    /\ Finished(task[c][d]) /\ task[c][d].pc /= "taken"
    /\ IF Raised(task[c][d])
       THEN /\ op' = [op EXCEPT ![c].phase = "raising"]
            /\ UNCHANGED <<task, out>>
       ELSE /\ task' = [task EXCEPT ![c][d].pc = "taken"]
            /\ out' = [out EXCEPT ![c] = Yield(@, d, task[c][d].df)]
            /\ UNCHANGED op
    /\ UNCHANGED <<call, file, avail, gets, loads, dlDone>>

\* The exception leaves the with block once the executor has shut down.
RaiseIter(c) ==
    /\ op[c].kind = "iter" /\ op[c].phase = "raising"
    /\ PoolDrained(c)
    /\ op' = [op EXCEPT ![c].phase = "error"]
    /\ UNCHANGED <<call, file, avail, task, gets, loads, out, dlDone>>

\* Every future was consumed and the with block ends; the sequential loop
\* over the same range starts.
EndPool(c) ==
    /\ op[c].kind = "iter" /\ op[c].phase = "pass1"
    /\ \A d \in op[c].lo..op[c].hi : task[c][d].pc = "taken"
    /\ op' = [op EXCEPT ![c].phase = "pass2", ![c].cur = op[c].lo]
    /\ task' = [task EXCEPT ![c][op[c].lo] = NewTask("get", "check")]
    /\ UNCHANGED <<call, file, avail, gets, loads, out, dlDone>>

\* The sequential loop: the inline Client.get_scores_by_date of the current
\* date returned or raised; the loop yields and moves on, or ends.
Pass2Step(c) ==
    LET d == op[c].cur
    IN  /\ op[c].kind = "iter" /\ op[c].phase = "pass2"
        /\ Finished(task[c][d]) /\ task[c][d].pc /= "taken"
        /\ IF Raised(task[c][d])
           THEN /\ op' = [op EXCEPT ![c].phase = "error"]
                /\ UNCHANGED <<task, out>>
           ELSE /\ out' = [out EXCEPT ![c] = Yield(@, d, task[c][d].df)]
                /\ IF d = op[c].hi
                   THEN /\ op' = [op EXCEPT ![c].phase = "ok"]
                        /\ task' = [task EXCEPT ![c][d].pc = "taken"]
                   ELSE /\ op' = [op EXCEPT ![c].cur = d + 1]
                        /\ task' = [task EXCEPT ![c][d].pc = "taken",
                                                ![c][d + 1] = NewTask("get", "check")]
        /\ UNCHANGED <<call, file, avail, gets, loads, dlDone>>

(***************************************************************************)
(* Specifications                                                          *)
(***************************************************************************)
\* A step of a worker or of an inline call of caller c.
TaskStep(c) ==
    \E d \in Dates :
        \/ TaskCheck(c, d)
        \/ FetchOk(c, d)
        \/ FetchFail(c, d)
        \/ OpenFile(c, d)
        \/ WriteChunk(c, d)
        \/ ReadFile(c, d)

\* One caller running the four operations one after the other.
Next ==
    \/ \E d \in Dates, typed \in BOOLEAN : CallDownload(1, d, typed)
    \/ ReturnDownload(1)
    \/ \E d \in Dates, f \in Filters : CallGet(1, d, f)
    \/ ReturnGet(1)
    \/ \E lo \in Dates, hi \in Dates : CallRange(1, lo, hi)
    \/ ReturnRange(1)
    \/ \E lo \in Dates, hi \in Dates, f \in Filters : CallIter(1, lo, hi, f)
    \/ IterSubmit(1)
    \/ \E d \in Dates : Consume(1, d)
    \/ RaiseIter(1)
    \/ EndPool(1)
    \/ Pass2Step(1)
    \/ TaskStep(1)

Spec == Init /\ [][Next]_vars

\* Two callers sharing the cache directory, each running the single-date
\* operations.
NextConc ==
    \E c \in Callers :
        \/ \E d \in Dates, typed \in BOOLEAN : CallDownload(c, d, typed)
        \/ ReturnDownload(c)
        \/ \E d \in Dates, f \in Filters : CallGet(c, d, f)
        \/ ReturnGet(c)
        \/ TaskStep(c)

SpecConc == Init /\ [][NextConc]_vars

\* Number of dates the two racing callers ask for.
NumRaceDates == 1

RaceDates == 1..NumRaceDates

\* Two callers sharing the cache directory that ask for the same dates.
NextRace ==
    \E c \in Callers :
        \/ \E d \in RaceDates, typed \in BOOLEAN : CallDownload(c, d, typed)
        \/ ReturnDownload(c)
        \/ \E d \in RaceDates, f \in Filters : CallGet(c, d, f)
        \/ ReturnGet(c)
        \/ TaskStep(c)

SpecRace == Init /\ [][NextRace]_vars

(***************************************************************************)
(* Dates (parse_date_range, iter_dates, get_min_date, get_max_date).       *)
(* A date is a day number of the window 0..MaxDay.  A call returns         *)
(* [st |-> "ok", v |-> value] or raises, [st |-> the exception].           *)
(***************************************************************************)
\* Last day number of the window the date functions are called on.
MaxDay == 4

Days == 0..MaxDay

\* The day number of MIN_DATE = "2022-07-15" in the window.
MIN_DATE == 2

\* An optional date argument.
OptDays == {None} \cup {Some(d) : d \in Days}

Ok(v) == [st |-> "ok", v |-> v]

Err(e) == [st |-> e]

\* get_max_date(): the date in the redirect of the provider's "current"
\* snapshot; cur = None when the HEAD request fails (raise_for_status).
get_max_date(cur) == IF cur = None THEN Err("HTTPError") ELSE Ok(cur[1])

\* The loop of get_min_date(check=True): HEAD on the date's URL, return the
\* date on a status other than 200, else step one day back.
RECURSIVE Probe(_, _)
Probe(date, avl) == IF date \notin avl THEN date ELSE Probe(date - 1, avl)

\* get_min_date(check); avl: the dates whose snapshot URL answers 200.
get_min_date(check, cur, avl) ==
    IF ~check THEN Ok(MIN_DATE)
    ELSE IF get_max_date(cur).st /= "ok" THEN get_max_date(cur)
    ELSE Ok(Probe(get_max_date(cur).v, avl))

\* Faulty variant: the comparison refuses equal bounds.
RangeErrorStrict(lo, hi) == lo >= hi

\* if min_date > max_date: raise ValueError
RangeError(lo, hi) == lo > hi

\* parse_date_range(min_date, max_date)
parse_date_range(min_date, max_date, cur) ==
    LET lo == IF min_date /= None THEN Ok(min_date[1]) ELSE get_min_date(FALSE, cur, {})
        hi == IF max_date /= None THEN Ok(max_date[1]) ELSE get_max_date(cur)
    IN  IF hi.st /= "ok" THEN hi
        ELSE IF RangeError(lo.v, hi.v) THEN Err("ValueError")
        ELSE Ok(<<lo.v, hi.v>>)

\* Faulty variant: the end of the range is left out.
RECURSIVE date_range_open(_, _)
date_range_open(a, b) == IF a >= b THEN <<>> ELSE <<a>> \o date_range_open(a + 1, b)

\* pd.date_range(min_date, max_date, freq="D")
RECURSIVE date_range(_, _)
date_range(a, b) == IF a > b THEN <<>> ELSE <<a>> \o date_range(a + 1, b)

\* iter_dates(min_date, max_date), fully consumed.
iter_dates(min_date, max_date, cur) ==
    LET lo == IF min_date /= None THEN min_date ELSE Some(MIN_DATE)
        hi == IF max_date /= None THEN Ok(max_date) ELSE get_max_date(cur)
    IN  IF hi.st /= "ok" THEN hi
        ELSE IF parse_date_range(lo, IF max_date /= None THEN max_date ELSE Some(hi.v), cur).st /= "ok"
             THEN parse_date_range(lo, IF max_date /= None THEN max_date ELSE Some(hi.v), cur)
        ELSE Ok(date_range(
                 parse_date_range(lo, IF max_date /= None THEN max_date ELSE Some(hi.v), cur).v[1],
                 parse_date_range(lo, IF max_date /= None THEN max_date ELSE Some(hi.v), cur).v[2]))

\* The rest of the state while a module-level function is called.
Untouched == UNCHANGED <<file, avail, op, task, gets, loads, out, dlDone>>

DoGetMinDate(check, cur, avl) ==
    /\ call = NoCall
    /\ call' = [fn |-> "get_min_date", check |-> check, cur |-> cur, avl |-> avl,
                res |-> get_min_date(check, cur, avl)]
    /\ Untouched

DoParseDateRange(min_date, max_date, cur) ==
    /\ call = NoCall
    /\ call' = [fn |-> "parse_date_range", min_date |-> min_date, max_date |-> max_date,
                cur |-> cur, res |-> parse_date_range(min_date, max_date, cur)]
    /\ Untouched

DoIterDates(min_date, max_date, cur) ==
    /\ call = NoCall
    /\ call' = [fn |-> "iter_dates", min_date |-> min_date, max_date |-> max_date,
                cur |-> cur, res |-> iter_dates(min_date, max_date, cur)]
    /\ Untouched

\* One call of a date function on an empty cache.
InitFn == Init /\ avail = {}

NextDates ==
    \/ /\ call = NoCall
       /\ \E check \in BOOLEAN, cur \in OptDays, avl \in SUBSET (1..MaxDay) :
             DoGetMinDate(check, cur, avl)
    \/ /\ call = NoCall
       /\ \E lo \in OptDays, hi \in OptDays, cur \in OptDays : DoParseDateRange(lo, hi, cur)
    \/ /\ call = NoCall
       /\ \E lo \in OptDays, hi \in OptDays, cur \in OptDays : DoIterDates(lo, hi, cur)

SpecDates == InitFn /\ [][NextDates]_vars

(***************************************************************************)
(* Queries on a cached snapshot (filter_scores, Client.get_scores_by_date, *)
(* Client.get_score), called on bounded inputs.                            *)
(***************************************************************************)
\* Largest number of records of a snapshot the query functions are called on.
MaxRows == 3

\* The records the snapshots are made of: scores 0.1, 0.5 and 0.9, and two
\* identifiers that differ in letter case only.
Records ==
    { Rec(<<"C", "1">>, 1, 9), Rec(<<"c", "1">>, 5, 5), Rec(<<"C", "2">>, 9, 1) }

Snapshots == UNION {[1..n -> Records] : n \in 0..MaxRows}

\* The cve_ids arguments: missing, an empty list, lists of patterns.
PatternArgs ==
    { None, Some(<<>>), Some(<< <<"C", "1">> >>), Some(<< <<"c", "*">> >>),
      Some(<< <<"C", "2">>, <<"?", "1">> >>) }

FilterArgs ==
    [cve_ids : PatternArgs,
     min_score : {None, Some(0), Some(5)}, max_score : {None, Some(0), Some(9)},
     min_percentile : {None, Some(0), Some(5)}, max_percentile : {None, Some(0), Some(5)}]

\* The identifiers Client.get_score is asked for.
QueryIds ==
    { <<"C", "1">>, <<"c", "1">>, <<"C", "2">>, <<"C", "3">>, <<"C", "*">>, <<>> }

\* The cache file a completed download of the snapshot leaves.
CachedFile(df) == [exists |-> TRUE, data |-> Payload(df)]

\* Client.get_scores_by_date(date, filters) on a cached date: pd.read_csv of
\* the file, then the filtering.
get_scores_cached(snapshot, d, f) == Shortcut(Rows(CachedFile(Stamp(snapshot, d))), f)

\* Faulty variant: the last matching row is taken.
get_score_last(cve_id, d, snapshot) ==
    LET df == get_scores_cached(snapshot, d, [NoFilter EXCEPT !.cve_ids = Some(<<cve_id>>)])
    IN  IF df /= <<>> THEN Some(df[Len(df)]) ELSE None

\* Client.get_score(cve_id, date): df.iloc[0].to_dict() or None.
get_score(cve_id, d, snapshot) ==
    LET df == get_scores_cached(snapshot, d, [NoFilter EXCEPT !.cve_ids = Some(<<cve_id>>)])
    IN  IF df /= <<>> THEN Some(df[1]) ELSE None

DoFilterScores(df, f) ==
    /\ call = NoCall
    /\ call' = [fn |-> "filter_scores", df |-> df, f |-> f, res |-> filter_scores(df, f)]
    /\ Untouched

DoGetScores(snapshot, d, f) ==
    /\ call = NoCall
    /\ call' = [fn |-> "get_scores_by_date", snapshot |-> snapshot, d |-> d, f |-> f,
                res |-> get_scores_cached(snapshot, d, f)]
    /\ Untouched

DoGetScore(cve_id, d, snapshot) ==
    /\ call = NoCall
    /\ call' = [fn |-> "get_score", cve_id |-> cve_id, d |-> d, snapshot |-> snapshot,
                res |-> get_score(cve_id, d, snapshot)]
    /\ Untouched

NextQuery ==
    \/ /\ call = NoCall
       /\ \E df \in Snapshots, f \in FilterArgs : DoFilterScores(df, f)
    \/ /\ call = NoCall
       /\ \E snapshot \in Snapshots, d \in Dates, f \in FilterArgs :
             DoGetScores(snapshot, d, f)
    \/ /\ call = NoCall
       /\ \E cve_id \in QueryIds, d \in Dates, snapshot \in Snapshots :
             DoGetScore(cve_id, d, snapshot)

SpecQuery == InitFn /\ [][NextQuery]_vars

(***************************************************************************)
(* Claims                                                                  *)
(***************************************************************************)
\* The table a load of date d gives under the operation's filters, from the
\* provider's snapshot.
Expected(d, f) == Shortcut(Stamp(Upstream(d), d), f)

InRange(c) == op[c].lo..op[c].hi

\* C1: once a call of Client.download_scores_by_date(d) has completed
\* successfully, a later call of it for d issues no HTTP GET for d.
C1_NoRefetchAfterSuccess ==
    \A c \in Callers :
        (op[c].kind = "download" /\ op[c].later) => gets[c][op[c].lo] = 0

\* A later call for a date whose snapshot has no rows returned from the cache.
C1_Witness ==
    /\ op[1].kind = "download" /\ op[1].later /\ op[1].phase = "ok"
    /\ Upstream(op[1].lo) = <<>>
    /\ Faithful(file[op[1].lo], op[1].lo)

\* C2: a cache file that Client.get_scores_by_date found existing and is
\* about to read holds the complete snapshot of its date, also while another
\* caller downloads the same date.
C2_ReaderSeesWholeSnapshot ==
    \A c \in Callers, d \in Dates :
        (task[c][d].kind = "get" /\ task[c][d].pc = "read") => Faithful(file[d], d)

\* C3: a download whose fetch failed leaves no file at the path of its date.
C3_FailedFetchLeavesNoFile ==
    \A c \in Callers, d \in Dates :
        task[c][d].pc = "fetch_failed" => ~Exists(file[d])

\* A call that ended with the error of its failed fetch.
C3_Witness ==
    \E d \in Dates :
        /\ task[1][d].pc = "fetch_failed" /\ gets[1][d] = 1
        /\ op[1].kind \in {"download", "get"} /\ op[1].phase = "error"
        /\ ~Exists(file[d])

\* C4: Client.download_scores_by_date_range does not return normally when
\* the fetch of one of its missing dates failed.
C4_RangeRaisesFetchError ==
    \A c \in Callers :
        (op[c].kind = "range" /\ op[c].phase = "ok")
            => \A d \in Dates : task[c][d].pc /= "fetch_failed"

\* C5: when Client.download_scores_by_date_range ends, every date it found
\* missing was fetched once, and each one whose fetch succeeded has its
\* complete cache entry, whatever happened to the others.
C5_SuccessfulDatesCached ==
    \A c \in Callers :
        (op[c].kind = "range" /\ op[c].phase = "ok")
            => \A d \in InRange(c) :
                  task[c][d].pc /= "none"
                      => /\ gets[c][d] = 1
                         /\ task[c][d].pc \in {"done", "fetch_failed"}
                         /\ task[c][d].pc = "done" => Faithful(file[d], d)

\* A range download that ended with one date failed and another one cached.
C5_Witness ==
    /\ op[1].kind = "range" /\ op[1].phase = "ok"
    /\ \E d, e \in InRange(1) :
          /\ task[1][d].pc = "fetch_failed" /\ ~Exists(file[d])
          /\ task[1][e].pc = "done" /\ Faithful(file[e], e)

\* The spec's cache entry: the path exists with nonzero size.
HasEntry(f) == Exists(f) /\ GetSize(f) > 0

\* C6: a call of Client.download_scores_by_date_range over a range whose
\* dates all have a cache entry issues no GET, submits nothing and leaves
\* every cache file as it was.
C6_CachedRangeIsNoOp ==
    [][\A c \in Callers :
          ( /\ ~Busy(c)
            /\ op'[c].kind = "range"
            /\ op'[c].lo <= op'[c].hi
            /\ \A d \in op'[c].lo..op'[c].hi : HasEntry(file[d]) )
          => /\ file' = file
             /\ op'[c].phase = "ok"
             /\ gets'[c] = Zero
             /\ \A d \in Dates : task'[c][d].pc = "none"]_vars

\* A range call over more than one date, all cached, that has returned.
C6_Witness ==
    /\ op[1].kind = "range" /\ op[1].phase = "ok" /\ op[1].lo < op[1].hi
    /\ \A d \in InRange(1) : task[1][d].pc = "none" /\ Faithful(file[d], d)

\* C7: a fully consumed Client.iter_scores_grouped_by_date loads each date of
\* the range once and yields one pair per date with a non-empty result.
C7_OnePairPerNonEmptyDate ==
    \A c \in Callers :
        (op[c].kind = "iter" /\ op[c].phase = "ok")
            => /\ \A d \in InRange(c) : loads[c][d] = 1
               /\ Len(out[c]) = Cardinality({d \in InRange(c) : Expected(d, op[c].flt) /= <<>>})

\* C8: every pair Client.iter_scores_grouped_by_date yields has its date in
\* [min, max] and a non-empty table.
C8_YieldedPairsNonEmptyInRange ==
    \A c \in Callers :
        \A i \in 1..Len(out[c]) :
            out[c][i][1] \in InRange(c) /\ out[c][i][2] /= <<>>

\* Both passes have yielded, and a date of the range was left out for its
\* empty result.
C8_Witness ==
    /\ op[1].kind = "iter" /\ op[1].phase = "ok"
    /\ \E i, j \in 1..Len(out[1]) : i < j /\ out[1][i][1] = out[1][j][1]
    /\ \E d \in InRange(1) : Expected(d, op[1].flt) = <<>>

\* C9: within one operation at most one HTTP GET is issued for a date.
C9_OneGetPerDate ==
    \A c \in Callers, d \in Dates : gets[c][d] <= 1

\* C10: a fully consumed Client.iter_scores_grouped_by_date over a range with
\* a date the provider has no snapshot for (such a date never has a cache
\* file) does not finish normally.
C10_UnavailableDateRaises ==
    /\ \A d \in Dates : d \notin avail => ~Exists(file[d])
    /\ \A c \in Callers :
          (op[c].kind = "iter" /\ \E d \in InRange(c) : d \notin avail)
              => op[c].phase /= "ok"

\* The iteration ended by raising, over a range with an available date that
\* is cached and an unavailable one.
C10_Witness ==
    /\ op[1].kind = "iter" /\ op[1].phase = "error" /\ op[1].lo < op[1].hi
    /\ \E d, e \in InRange(1) :
          /\ d \notin avail /\ gets[1][d] >= 1
          /\ e \in avail /\ Faithful(file[e], e)

\* C11: get_min_date(check=True) returns the last date that was available:
\* the day after the first unavailable date below max_date.
C11_MinDateIsLastAvailable ==
    (call.fn = "get_min_date" /\ call.check /\ call.cur /= None /\ call.cur[1] \in call.avl)
        => /\ call.res.st = "ok"
           /\ call.res.v \in call.avl
           /\ call.res.v - 1 \notin call.avl
           /\ \A d \in call.res.v..call.cur[1] : d \in call.avl

\* C12: every range parse_date_range returns lies within the global bounds:
\* MIN_DATE <= min_date <= max_date <= the provider's current date.
C12_RangeWithinGlobalBounds ==
    (call.fn = "parse_date_range" /\ call.res.st = "ok" /\ call.cur /= None)
        => /\ MIN_DATE <= call.res.v[1]
           /\ call.res.v[1] <= call.res.v[2]
           /\ call.res.v[2] <= call.cur[1]

\* The bound a missing argument of parse_date_range stands for.
Defaulted(arg, global) == IF arg /= None THEN arg[1] ELSE global

C14_IterDatesEnumeratesRange ==
    (call.fn = "iter_dates" /\ call.min_date /= None /\ call.max_date /= None
        /\ call.min_date[1] <= call.max_date[1])
        => /\ call.res.st = "ok"
           /\ Len(call.res.v) = call.max_date[1] - call.min_date[1] + 1
           /\ call.res.v[1] = call.min_date[1]
           /\ call.res.v[Len(call.res.v)] = call.max_date[1]
           /\ \A i \in 1..(Len(call.res.v) - 1) : call.res.v[i + 1] = call.res.v[i] + 1

\* A range of at least three days was enumerated.
C14_Witness ==
    /\ call.fn = "iter_dates" /\ call.min_date /= None /\ call.max_date /= None
    /\ call.res.st = "ok" /\ Len(call.res.v) >= 3

\* The snapshot holds a record with exactly this identifier.
Contains(snapshot, id) == \E i \in 1..Len(snapshot) : snapshot[i].cve = id

\* C15 as stated: Client.get_score returns a record with the requested
\* identifier and date when the snapshot contains the identifier, and None
\* whenever the snapshot has no record with exactly that identifier.
C15_ExactIdentifierLookup ==
    call.fn = "get_score"
        => /\ Contains(call.snapshot, call.cve_id)
                => /\ call.res /= None
                   /\ call.res[1].cve = call.cve_id
                   /\ call.res[1].date = call.d
           /\ ~Contains(call.snapshot, call.cve_id) => call.res = None

\* The identifier matches the requested one taken as a glob pattern, both
\* lowercased.
GlobMatch(id, requested) == fnmatch(lower(id), lower(requested))

HasWildcard(requested) == \E i \in 1..Len(requested) : requested[i] \in {"*", "?"}

\* C15 amended: Client.get_score returns the first record of the snapshot
\* whose identifier matches the requested identifier as a case-insensitive
\* glob pattern, stamped with the requested date, and None iff no record
\* matches; without wildcards the identifiers are equal up to letter case.
C15_FirstGlobMatch ==
    call.fn = "get_score"
        => LET hits == {i \in 1..Len(call.snapshot) : GlobMatch(call.snapshot[i].cve, call.cve_id)}
           IN  /\ call.res = None <=> hits = {}
               /\ hits /= {}
                    => LET first == CHOOSE i \in hits : \A j \in hits : i <= j
                       IN  /\ call.res[1].cve = call.snapshot[first].cve
                           /\ call.res[1].epss = call.snapshot[first].epss
                           /\ call.res[1].percentile = call.snapshot[first].percentile
                           /\ call.res[1].date = call.d
                           /\ ~HasWildcard(call.cve_id)
                                => lower(call.res[1].cve) = lower(call.cve_id)

\* A lookup that returned a record although two records match, and one that
\* found nothing in a snapshot with records.
C15_Witness ==
    /\ call.fn = "get_score"
    /\ Len(call.snapshot) = 3
    /\ call.snapshot[1].cve /= call.snapshot[2].cve
    /\ GlobMatch(call.snapshot[1].cve, call.cve_id)
    /\ GlobMatch(call.snapshot[2].cve, call.cve_id)
    /\ call.res /= None

\* What C16 asks of a record: score and percentile within the given bounds,
\* and an identifier matching one of the patterns when there are any.
Wanted(r, f) ==
    /\ f.min_score /= None => r.epss >= f.min_score[1]
    /\ f.max_score /= None => r.epss <= f.max_score[1]
    /\ f.min_percentile /= None => r.percentile >= f.min_percentile[1]
    /\ f.max_percentile /= None => r.percentile <= f.max_percentile[1]
    /\ (f.cve_ids /= None /\ f.cve_ids[1] /= <<>>)
          => \E i \in 1..Len(f.cve_ids[1]) : GlobMatch(r.cve, f.cve_ids[1][i])

\* C16: filter_scores returns exactly the wanted records of its input, in
\* their original order.
C16_FilterKeepsWantedInOrder ==
    call.fn = "filter_scores"
        => LET keep == {i \in 1..Len(call.df) : Wanted(call.df[i], call.f)}
           IN  /\ Len(call.res) = Cardinality(keep)
               /\ \A k \in 1..Len(call.res) :
                     \E i \in keep :
                        /\ call.res[k] = call.df[i]
                        /\ Cardinality({j \in keep : j < i}) = k - 1

\* Scores 0.1, 0.5, 0.9 filtered with min_score 0.5 and max_score 0.9 gave
\* the records scoring 0.5 and 0.9: both bounds are inclusive.
C16_Witness ==
    /\ call.fn = "filter_scores"
    /\ Len(call.df) = 3
    /\ call.df[1].epss = 1 /\ call.df[2].epss = 5 /\ call.df[3].epss = 9
    /\ call.f = [NoFilter EXCEPT !.min_score = Some(5), !.max_score = Some(9)]
    /\ call.res = <<call.df[2], call.df[3]>>

\* C17: Client.get_scores_by_date returns, for every cached snapshot and
\* every combination of filter arguments, what filter_scores gives on the
\* full snapshot with the same arguments.
C17_ShortcutChangesNothing ==
    call.fn = "get_scores_by_date"
        => call.res = filter_scores(Stamp(call.snapshot, call.d), call.f)

\* Every future submitted by the bulk download is done.
AllFetchesOver(c) ==
    \A d \in Dates : task[c][d].pc \in {"none", "done", "fetch_failed", "stamp_failed"}

\* C18: in Client.iter_scores_grouped_by_date no load has started while the
\* bulk download runs, and the bulk download (there and called alone) ends
\* only when every fetch it submitted is over.
C18_LoadsAfterDownload ==
    [][\A c \in Callers :
          /\ (op'[c].kind = "iter" /\ op'[c].phase = "downloading")
                => /\ loads'[c] = Zero
                   /\ \A d \in Dates : task'[c][d].kind /= "get"
          /\ (op[c].kind \in {"iter", "range"} /\ op[c].phase = "downloading"
                /\ op'[c].phase /= "downloading")
                => AllFetchesOver(c)]_vars

\* A load that runs after a bulk download which fetched one date and failed
\* on another.
C18_Witness ==
    /\ op[1].kind = "iter" /\ op[1].phase = "pass1"
    /\ \E d, e \in InRange(1) :
          /\ gets[1][d] = 1 /\ Faithful(file[d], d) /\ task[1][d].pc = "read"
          /\ gets[1][e] = 1 /\ ~Exists(file[e])

\* C19: the dates of the pairs one Client.iter_scores_grouped_by_date call
\* yields are strictly ascending.
C19_YieldedDatesAscending ==
    \A c \in Callers :
        op[c].kind = "iter"
            => \A i, j \in 1..Len(out[c]) : i < j => out[c][i][1] < out[c][j][1]

\* Caller c has fetched date d in its operation and written it to the end.
WroteAll(c, d) ==
    /\ ~Busy(c) /\ op[c].kind \in {"get", "download"} /\ op[c].lo = d
    /\ gets[c][d] = 1
    /\ task[c][d].pc \in {"done", "read_failed"}
    /\ task[c][d].off = Len(Payload(Stamp(Upstream(d), d)))

\* C20: once two callers that both fetched the same uncached date have
\* finished, the file of the date is one complete snapshot of it.
C20_RaceLeavesWholeSnapshot ==
    \A d \in Dates :
        (\A c \in Callers : WroteAll(c, d)) => Faithful(file[d], d)

\* Both callers fetched and wrote date d, and one of them read the file
\* while the other was writing it.
C20_Witness ==
    \E d \in Dates :
        /\ \A c \in Callers : WroteAll(c, d)
        /\ \E c \in Callers : task[c][d].pc = "read_failed"

\* C21: in every state of a date's cache file the three cache-hit tests
\* give the same answer, and the answer is "hit" exactly when a non-empty
\* file exists.
C21_HitChecksAgree ==
    \A d \in Dates :
        /\ RangeHit(file[d]) = DownloadHit(file[d])
        /\ DownloadHit(file[d]) = GetHit(file[d])
        /\ GetHit(file[d]) = (Exists(file[d]) /\ GetSize(file[d]) > 0)

====
